---- MODULE Spec2Model ----
(***************************************************************************)
(* A model of leptos_i18n's build-time locale loader                       *)
(* (leptos_i18n_macro/src/load_locales) and of its Key type.               *)
(*                                                                         *)
(* Strings are sequences of one-character strings.  Option<T> is a         *)
(* sequence of length 0 (None) or 1 (Some).                                *)
(***************************************************************************)
EXTENDS Integers, Sequences, FiniteSets, Bags, TLC

VARIABLES
    v,            \* key.rs:88  Option: the &str last handed to KeySeed::visit_str
    opt,          \* key.rs:36  the Option<Key> Key::new returned inside try_new
    res,          \* key.rs:92  Option: the Result<Key> of the last visit_str
    pos,          \* key.rs:120 how many elements visit_seq has taken from the SeqAccess
    keys,         \* key.rs:119 the local Vec<Key> of KeyVecSeed::visit_seq
    seq_result,   \* key.rs:115 Option: the Result<Vec<Key>> visit_seq returned
    top_locales,  \* mod.rs:579 the HashSet<&Key> collected from the deserialized keys
    manifest,     \* what the manifest on disk declares: the default locale and the locale list
    files,        \* what the locale files on disk hold: one raw tree per locale
    pc,           \* mod.rs:45-133 where load_locales stands
    ran,          \* the passes of this build that have completed, in order
    cfg_file,     \* mod.rs:50  Option: the ConfigFile
    locales,      \* mod.rs:51  Option: the locale trees (LocalesOrNamespaces), mutated in place
    builder_keys, \* mod.rs:62  Option: the merged keys (BuildersKeys)
    code,         \* mod.rs:67  Option: the generated locale type
    warnings,     \* the process-wide warning accumulator, a bag
    emitted,      \* mod.rs:75  Option: the warnings handed to the generated code
    output,       \* mod.rs:45  Option: the Result<TokenStream> load_locales returned
    visited,      \* the (locale, key) pairs the running resolver has walked
    runs,         \* how many times the foreign-key resolver has run to its end
    first_run,    \* Option: the trees as the resolver's first run left them
    enum_locales, \* mod.rs:140 the locales create_locales_enum generated the enum from
    called,       \* Option: the last call of a function of the generated enum
    cell,         \* fetch_translations.rs:19 Option: what the unit's OnceCell<Strings> holds
    holder,       \* Option: the call whose initialiser the OnceCell is running
    task,         \* fetch_translations.rs:21-45 where each call stands, and what it returned
    stored,       \* the values initialisers have written into the cell, in order
    units,        \* fetch_translations.rs:17 the STRINGS of each translation unit
    register_calls, \* fetch_translations.rs:158 how many times register was called
    ctx_map,      \* fetch_translations.rs:149 the map of RegisterCtx
    array_text,   \* fetch_translations.rs:165 Option: the String to_array returned
    translations  \* fetch_translations.rs:219 Option: what init_translations read back

keyVars == <<v, opt, res, pos, keys, seq_result, top_locales>>
buildVars == <<manifest, files, pc, ran, cfg_file, locales, builder_keys, code,
               warnings, emitted, output, visited, runs, first_run>>
enumVars == <<enum_locales, called>>
cellVars == <<cell, holder, task, stored>>
ctxVars == <<units, register_calls, ctx_map, array_text, translations>>
runtimeVars == <<enumVars, cellVars, ctxVars>>
vars == <<keyVars, buildVars, runtimeVars>>

----------------------------------------------------------------------------
(* Bounds of the model *)

\* longest raw key string
MaxLen == 3
\* most elements a deserialized key sequence holds
MaxSeq == 2
\* most runs of the foreign-key resolver over one set of trees
MaxRuns == 2
\* most locales the generated enum is made of
MaxLocales == 2
\* longest translated string
MaxValueLen == 2
\* most strings a translation unit holds
MaxStrings == 2
\* most calls of RegisterCtx::register
MaxRegister == 3

----------------------------------------------------------------------------
(* Characters and strings *)

Chars == {"a", "1", "-", "_", " ", "/"}

Strings == UNION {[1..n -> Chars] : n \in 0..MaxLen}

None == <<>>
Some(x) == <<x>>

\* char::is_whitespace, on the model's characters
IsWhitespace(c) == c \in {" ", "\t", "\n", "\r"}

RECURSIVE TrimStart(_)
TrimStart(s) ==
    IF s = <<>> THEN s
    ELSE IF IsWhitespace(Head(s)) THEN TrimStart(Tail(s)) ELSE s

RECURSIVE TrimEnd(_)
TrimEnd(s) ==
    IF s = <<>> THEN s
    ELSE IF IsWhitespace(s[Len(s)]) THEN TrimEnd(SubSeq(s, 1, Len(s) - 1)) ELSE s

\* str::trim
Trim(s) == TrimEnd(TrimStart(s))

\* str::replace('-', "_")
ReplaceHyphens(s) == [i \in 1..Len(s) |-> IF s[i] = "-" THEN "_" ELSE s[i]]

StartsWith(s, p) == Len(s) >= Len(p) /\ SubSeq(s, 1, Len(p)) = p

----------------------------------------------------------------------------
(* syn::parse_str::<syn::Ident>: the text is lexed into tokens (whitespace  *)
(* and non-doc comments are skipped between tokens), and the parse succeeds *)
(* when the token stream is exactly one identifier that is neither "_" nor  *)
(* a keyword.                                                               *)

IsIdentStart(c) == c \in {"a", "s", "_"}
IsIdentContinue(c) == c \in {"a", "s", "_", "1"}

Keywords == {<<"a", "s">>}

RECURSIVE TakeUntilNewline(_)
TakeUntilNewline(s) ==
    IF s = <<>> \/ Head(s) = "\n" THEN s ELSE TakeUntilNewline(Tail(s))

\* the lexer's skip of whitespace and of line comments ("//", but not the
\* doc comment "///" unless it is "////")
RECURSIVE SkipWhitespace(_)
SkipWhitespace(s) ==
    IF s = <<>> THEN s
    ELSE IF /\ StartsWith(s, <<"/", "/">>)
            /\ (~StartsWith(s, <<"/", "/", "/">>) \/ StartsWith(s, <<"/", "/", "/", "/">>))
         THEN SkipWhitespace(TakeUntilNewline(s))
    ELSE IF IsWhitespace(Head(s)) THEN SkipWhitespace(Tail(s))
    ELSE s

RECURSIVE IdentLen(_)
IdentLen(s) ==
    IF s = <<>> \/ ~IsIdentContinue(Head(s)) THEN 0 ELSE 1 + IdentLen(Tail(s))

ParseIdent(s) ==
    LET s1 == SkipWhitespace(s) IN
    IF s1 = <<>> \/ ~IsIdentStart(Head(s1)) THEN None
    ELSE LET n    == IdentLen(s1)
             id   == SubSeq(s1, 1, n)
             rest == SkipWhitespace(SubSeq(s1, n + 1, Len(s1)))
         IN  IF rest # <<>> THEN None
             ELSE IF id = <<"_">> \/ id \in Keywords THEN None
             ELSE Some(id)

----------------------------------------------------------------------------
(* Key (key.rs) *)

Key(name, ident) == [name |-> name, ident |-> ident]

\* Key::new
KeyNew(raw) ==
    LET name       == Trim(raw)
        ident_repr == ReplaceHyphens(name)
        ident      == ParseIdent(ident_repr)
    IN  IF ident = None THEN None ELSE Some(Key(name, ident[1]))

InvalidKey(s) == [error |-> "InvalidKey", raw |-> s]
Ok(x) == [ok |-> TRUE, value |-> x]
Err(e) == [ok |-> FALSE, error |-> e]

TryNewFromTrimmed(o, raw) == IF o = None THEN Err(InvalidKey(Trim(raw))) ELSE Ok(o[1])

\* Key::try_new, given the Option that Key::new returned
TryNewFrom(o, raw) == IF o = None THEN Err(InvalidKey(raw)) ELSE Ok(o[1])

\* Key::try_new
TryNew(raw) == TryNewFrom(KeyNew(raw), raw)

\* KeySeed::visit_str: the error is wrapped by E::custom, which keeps its text
VisitStr(raw) == TryNew(raw)

KeyEqByIdent(k1, k2) == k1.ident = k2.ident

\* impl PartialEq for Key
KeyEq(k1, k2) == k1.name = k2.name

\* impl Hash for Key: what the key feeds to the hasher
KeyHash(k) == k.name

\* HashSet<&Key>::contains: same hash, then eq
SetContains(set, k) == \E e \in set : KeyHash(e) = KeyHash(k) /\ KeyEq(e, k)

\* HashSet<&Key>::insert
SetInsert(set, k) == IF SetContains(set, k) THEN set ELSE set \cup {k}

RECURSIVE CollectSet(_, _)
CollectSet(set, ks) ==
    IF ks = <<>> THEN set ELSE CollectSet(SetInsert(set, Head(ks)), Tail(ks))

----------------------------------------------------------------------------
(* The key deserializer and the locale set built from its keys *)

KeyInit ==
    /\ v = None
    /\ opt = None
    /\ res = None
    /\ pos = 0
    /\ keys = <<>>
    /\ seq_result = None
    /\ top_locales = {}

\* KeyVecSeed::visit_seq, one turn of its loop on an element: the element is
\* deserialized by KeySeed (visit_str); an error leaves the function at once
\* ("?"), dropping the local vector
NextElementSeed(raw) ==
    /\ seq_result = None
    /\ pos < MaxSeq
    /\ pos' = pos + 1
    /\ v' = Some(raw)
    /\ opt' = KeyNew(raw)
    /\ res' = Some(VisitStr(raw))
    /\ IF VisitStr(raw).ok
         THEN /\ keys' = Append(keys, VisitStr(raw).value)
              /\ UNCHANGED seq_result
         ELSE /\ keys' = <<>>
              /\ seq_result' = Some(Err(VisitStr(raw).error))
    /\ UNCHANGED <<top_locales, buildVars, runtimeVars>>

\* KeyVecSeed::visit_seq, the end of the sequence: Ok(keys)
EndOfSeq ==
    /\ seq_result = None
    /\ seq_result' = Some(Ok(keys))
    /\ UNCHANGED <<v, opt, res, pos, keys, top_locales, buildVars, runtimeVars>>

\* create_locale_type: top_locales = cfg_file.locales.iter().map(Deref::deref).collect()
CollectTopLocales ==
    /\ seq_result # None
    /\ seq_result[1].ok
    /\ top_locales = {}
    /\ keys # <<>>
    /\ top_locales' = CollectSet({}, keys)
    /\ UNCHANGED <<v, opt, res, pos, keys, seq_result, buildVars, runtimeVars>>

KeyNext ==
    \/ \E raw \in Strings : NextElementSeed(raw)
    \/ EndOfSeq
    \/ CollectTopLocales

----------------------------------------------------------------------------
(* ParsedValue and the locale trees.  A tree maps the names of the keys it  *)
(* holds to values; a key a tree leaves out is not in its domain.           *)

String(text) == [t |-> "String", text |-> text]
Variable(key) == [t |-> "Variable", key |-> key]
Component(key) == [t |-> "Component", key |-> key]
ForeignKey(path) == [t |-> "ForeignKey", path |-> path, resolved |-> None]
Subkeys(tree) == [t |-> "Subkeys", keys |-> tree]

EmptyTree == [k \in {} |-> None]

\* the tree that holds, of the keys of f, those f does not map to None
TreeOf(f) == [k \in {x \in DOMAIN f : f[x] # None} |-> f[k][1]]

\* the tree with key k mapped to val
Put(tree, k, val) == [x \in DOMAIN tree \cup {k} |-> IF x = k THEN val ELSE tree[x]]

\* the tree without the keys of gone
Without(tree, gone) == [x \in DOMAIN tree \ gone |-> tree[x]]

IsUnresolved(val) == val.t = "ForeignKey" /\ val.resolved = None

\* the (locale, key) pairs of the top-level foreign keys that are not resolved
Unresolved(ts) ==
    {lk \in UNION {{<<l, k>> : k \in DOMAIN ts[l]} : l \in DOMAIN ts} :
        IsUnresolved(ts[lk[1]][lk[2]])}

----------------------------------------------------------------------------
(* The foreign-key resolver (ParsedValue::resolve_foreign_keys).  A         *)
(* reference names a key of the tree of the locale it stands in.            *)

ForeignKeyCycle(l, k) == [error |-> "ForeignKeyCycle", locale |-> l, key |-> k]
UndefinedForeignKey(l, k, path) ==
    [error |-> "UndefinedForeignKey", locale |-> l, key |-> k, path |-> path]

TargetUnflattened(val) == val

\* the value a reference to val stands for: a resolved reference stands for
\* what it was resolved to
Target(val) == IF val.t = "ForeignKey" /\ val.resolved # None THEN val.resolved[1] ELSE val

\* what the resolver does on finding the reference at <<l, k>> among the
\* references it is in the middle of resolving
OnRevisitAsUndefined(l, k) == Err(UndefinedForeignKey(l, k, k))

OnRevisit(l, k) == Err(ForeignKeyCycle(l, k))

\* resolving the value at <<l, k>>; visiting holds the references being
\* resolved.  A value that is no reference, or a resolved one, is left alone.
RECURSIVE ResolveForeignKey(_, _, _, _)
ResolveForeignKey(ts, l, k, visiting) ==
    LET val == ts[l][k] IN
    IF ~IsUnresolved(val) THEN Ok(ts)
    ELSE IF <<l, k>> \in visiting THEN OnRevisit(l, k)
    ELSE IF val.path \notin DOMAIN ts[l] THEN Err(UndefinedForeignKey(l, k, val.path))
    ELSE LET r == ResolveForeignKey(ts, l, val.path, visiting \cup {<<l, k>>}) IN
         IF ~r.ok THEN r
         ELSE LET to  == Target(r.value[l][val.path])
                  new == [val EXCEPT !.resolved = Some(to)]
              IN  Ok([r.value EXCEPT ![l] = Put(r.value[l], k, new)])

----------------------------------------------------------------------------
(* The locale check (Locale::check_locales): the default locale's tree      *)
(* gives the keys; every other locale is merged into them, in the order of  *)
(* the locale list.                                                         *)

Locale(name, tree) == [top_locale_name |-> name, keys |-> tree]

\* LocaleValue::Value, with the Option of the interpolation keys
Value(sig) == [t |-> "Value", sig |-> sig]
\* LocaleValue::Subkeys
SubkeysValue(locs, ks) == [t |-> "Subkeys", locales |-> locs, keys |-> ks]

MissingKey(l, path) == [warning |-> "MissingKey", locale |-> l, key_path |-> path]
SurplusKey(l, path) == [warning |-> "SurplusKey", locale |-> l, key_path |-> path]
LocaleKeyTypeMismatch(l, path) ==
    [error |-> "LocaleKeyTypeMismatch", locale |-> l, key_path |-> path]

\* reducing a value: a resolved foreign key becomes the value it was resolved to
RECURSIVE Reduce(_)
Reduce(val) ==
    IF val.t = "ForeignKey" THEN (IF val.resolved = None THEN val ELSE Reduce(val.resolved[1]))
    ELSE IF val.t = "Subkeys" THEN Subkeys([k \in DOMAIN val.keys |-> Reduce(val.keys[k])])
    ELSE val

ReduceTree(tree) == [k \in DOMAIN tree |-> Reduce(tree[k])]

\* the interpolation keys a value uses
InterpolationKeys(val) ==
    IF val.t \in {"Variable", "Component"} THEN {[key |-> val.key, kind |-> val.t]} ELSE {}

\* one name used both as a variable and as a component
Conflicting(sig) == \E a, b \in sig : a.key = b.key /\ a.kind # b.kind

\* Locale::make_builder_keys: the keys of the default locale's (reduced) tree
RECURSIVE MakeBuilderKeys(_, _)
MakeBuilderKeys(l, tree) ==
    [k \in DOMAIN tree |->
        IF tree[k].t = "Subkeys"
          THEN SubkeysValue(<<Locale(l, tree[k].keys)>>, MakeBuilderKeys(l, tree[k].keys))
        ELSE IF InterpolationKeys(tree[k]) = {} THEN Value(None)
        ELSE Value(Some(InterpolationKeys(tree[k])))]

\* the interpolation keys of a key after one more locale's value
UnionLastOnly(sig, more) == IF more = {} THEN sig ELSE Some(more)

UnionSig(sig, more) ==
    IF sig = None THEN (IF more = {} THEN None ELSE Some(more)) ELSE Some(sig[1] \cup more)

\* Locale::merge, for the (reduced) tree of locale l in the scope at path:
\* errors, the errors the merge may stop on (it stops on the first it meets);
\* keys, the merged keys; warnings; tree, the tree with its merged subtrees
\* (a surplus key is passed over: it is in no merged key map)
RECURSIVE MergeScope(_, _, _, _)
RECURSIVE MergeKey(_, _, _, _)
MergeKey(lv, l, val, path) ==
    IF lv.t = "Value" THEN
        IF val.t = "Subkeys"
          THEN [errors |-> {LocaleKeyTypeMismatch(l, path)}, value |-> lv, warnings |-> {}, kept |-> val]
          ELSE LET u == UnionSig(lv.sig, InterpolationKeys(val)) IN
               [errors   |-> IF u # None /\ Conflicting(u[1])
                               THEN {LocaleKeyTypeMismatch(l, path)} ELSE {},
                value    |-> Value(u),
                warnings |-> {},
                kept     |-> val]
    ELSE
        IF val.t # "Subkeys"
          THEN [errors |-> {LocaleKeyTypeMismatch(l, path)}, value |-> lv, warnings |-> {}, kept |-> val]
          ELSE LET sub == MergeScope(lv.keys, l, val.keys, path) IN
               [errors   |-> sub.errors,
                value    |-> SubkeysValue(Append(lv.locales, Locale(l, sub.tree)), sub.keys),
                warnings |-> sub.warnings,
                kept     |-> Subkeys(sub.tree)]

MergeScope(ks, l, tree, path) ==
    LET both    == DOMAIN ks \cap DOMAIN tree
        missing == DOMAIN ks \ DOMAIN tree
        surplus == DOMAIN tree \ DOMAIN ks
        m       == [k \in both |-> MergeKey(ks[k], l, tree[k], Append(path, k))]
    IN  [errors   |-> UNION {m[k].errors : k \in both},
         keys     |-> [k \in DOMAIN ks |-> IF k \in both THEN m[k].value ELSE ks[k]],
         warnings |-> UNION {m[k].warnings : k \in both}
                        \cup {MissingKey(l, Append(path, k)) : k \in missing}
                        \cup {SurplusKey(l, Append(path, k)) : k \in surplus},
         tree     |-> [k \in DOMAIN tree |-> IF k \in both THEN m[k].kept ELSE tree[k]]]

\* the merge of the locales order[i..] into st
RECURSIVE MergeFrom(_, _, _)
MergeFrom(order, i, st) ==
    IF i > Len(order) THEN st
    ELSE LET l == order[i]
             r == MergeScope(st.keys, l, st.trees[l], <<>>)
         IN  IF r.errors # {}
               THEN [st EXCEPT !.ok = FALSE, !.errors = r.errors,
                               !.partial = {w \in r.warnings : w.warning = "MissingKey"}]
               ELSE MergeFrom(order, i + 1,
                        [st EXCEPT !.keys = r.keys,
                                   !.warnings = st.warnings \cup r.warnings,
                                   !.trees = [st.trees EXCEPT ![l] = r.tree]])

\* Locale::check_locales over the locale list order (the default locale first)
CheckLocales(order, ts) ==
    LET reduced == [l \in DOMAIN ts |-> ReduceTree(ts[l])]
    IN  MergeFrom(order, 2,
            [ok |-> TRUE, errors |-> {}, partial |-> {},
             keys |-> MakeBuilderKeys(order[1], reduced[order[1]]),
             warnings |-> {}, trees |-> reduced])

\* BuildersKeys::Locales.locales: the locales of the top scope, in list order
LocalesOf(order, ts) == [i \in 1..Len(order) |-> Locale(order[i], ts[order[i]])]

----------------------------------------------------------------------------
(* Code generation (create_locale_type_inner).  The generated type of a     *)
(* scope is its fields, the arms of its constructor new(locale), and the    *)
(* types of its subkeys.  A pattern is the set of the locales it matches.   *)

GetDefaultMatchDefaultOnly(default_locale, tl, locs) == {default_locale}

\* get_default_match
GetDefaultMatch(default_locale, tl, locs) ==
    {default_locale} \cup (tl \ {locs[i].top_locale_name : i \in 1..Len(locs)})

StringKeysOfValues(ks) == {k \in DOMAIN ks : ks[k].t = "Value"}

\* string_keys
StringKeys(ks) == {k \in DOMAIN ks : ks[k] = Value(None)}

\* subkeys
SubkeysKeys(ks) == {k \in DOMAIN ks : ks[k].t = "Subkeys"}

\* builders
BuilderKeys(ks) == {k \in DOMAIN ks : ks[k].t = "Value" /\ ks[k].sig # None}

AllTreeKeys(locs) == UNION {DOMAIN locs[i].keys : i \in 1..Len(locs)}

StructFieldsOfTrees(locs, ks) ==
    [string  |-> StringKeys(ks) \cup (AllTreeKeys(locs) \ DOMAIN ks),
     builder |-> BuilderKeys(ks),
     subkeys |-> SubkeysKeys(ks)]

\* string_fields, builder_fields, subkeys_fields: the fields of the struct
StructFields(locs, ks) ==
    [string  |-> StringKeys(ks),
     builder |-> BuilderKeys(ks),
     subkeys |-> SubkeysKeys(ks)]

IsString(tree, k) == k \in DOMAIN tree /\ tree[k].t = "String"

FilledOwnOnly(locale, default, string_keys) ==
    [k \in {x \in string_keys : IsString(locale.keys, x)} |-> locale.keys[k].text]

\* filled_string_fields: the string fields an arm fills, each with its string
FilledStringFields(locale, default, string_keys) ==
    [k \in {x \in string_keys : IsString(locale.keys, x) \/ IsString(default.keys, x)} |->
        IF IsString(locale.keys, k) THEN locale.keys[k].text ELSE default.keys[k].text]

\* new_match_arms: one arm per locale of the scope, the first under default_match
NewMatchArms(default_locale, tl, locs, ks) ==
    [i \in 1..Len(locs) |->
        [pattern |-> IF i # 1 THEN {locs[i].top_locale_name}
                     ELSE GetDefaultMatch(default_locale, tl, locs),
         string_fields  |-> FilledStringFields(locs[i], locs[1], StringKeys(ks)),
         builder_fields |-> BuilderKeys(ks),
         subkeys_fields |-> SubkeysKeys(ks)]]

RECURSIVE CreateLocaleTypeInner(_, _, _, _)
CreateLocaleTypeInner(default_locale, tl, locs, ks) ==
    [fields  |-> StructFields(locs, ks),
     arms    |-> NewMatchArms(default_locale, tl, locs, ks),
     subkeys |-> [k \in SubkeysKeys(ks) |->
                    CreateLocaleTypeInner(default_locale, tl, ks[k].locales, ks[k].keys)]]

Range(f) == {f[i] : i \in DOMAIN f}

\* create_locale_type, for BuildersKeys::Locales
CreateLocaleType(bk, cfg) ==
    CreateLocaleTypeInner(cfg.default, Range(cfg.locales), bk.locales, bk.keys)

----------------------------------------------------------------------------
(* The generated Locale enum (create_locales_enum).  A variant is named by   *)
(* the ident of its locale's Key; a match takes the first arm that matches. *)

\* the locales of the model: the keys Key::new makes of the strings of
\* letters, digits and hyphens
LocaleChars == {"a", "1", "-"}
ValidKeys ==
    {KeyNew(s)[1] : s \in {t \in UNION {[1..n -> LocaleChars] : n \in 0..MaxLen} :
                              KeyNew(t) # None}}

\* locale.split('-')
RECURSIVE Split(_)
Split(s) ==
    IF \A i \in 1..Len(s) : s[i] # "-" THEN <<s>>
    ELSE LET i == CHOOSE i \in 1..Len(s) : s[i] = "-" /\ \A j \in 1..(i - 1) : s[j] # "-"
         IN  <<SubSeq(s, 1, i - 1)>> \o Split(SubSeq(s, i + 1, Len(s)))

\* locale.split('-').map(str::trim)
Parts(key) == [i \in DOMAIN Split(key.name) |-> Trim(Split(key.name)[i])]

Star == <<"*">>

FromPartsArmAnyRest(key, s) ==
    /\ Len(s) >= Len(Parts(key))
    /\ \A i \in 1..Len(Parts(key)) : s[i] = Parts(key)[i] \/ s[i] = Star

\* &[#(#parts | "*",)* ref rest @ ..] if rest.iter().all(|p| *p == "*")
FromPartsArm(key, s) ==
    /\ Len(s) >= Len(Parts(key))
    /\ \A i \in 1..Len(Parts(key)) : s[i] = Parts(key)[i] \/ s[i] = Star
    /\ \A i \in (Len(Parts(key)) + 1)..Len(s) : s[i] = Star

\* the first of the arms hits matches, or the arm "_ => None"
FirstArm(locs, hits) ==
    IF hits = {} THEN None
    ELSE Some(locs[CHOOSE i \in hits : \A j \in hits : i <= j].ident)

\* Locale::from_parts
FromParts(locs, s) == FirstArm(locs, {i \in DOMAIN locs : FromPartsArm(locs[i], s)})

\* Locale::from_str
FromStr(locs, s) == FirstArm(locs, {i \in DOMAIN locs : locs[i].name = Trim(s)})

\* Locale::as_str
AsStr(locs, variant) ==
    locs[CHOOSE i \in DOMAIN locs :
            /\ locs[i].ident = variant
            /\ \A j \in DOMAIN locs : locs[j].ident = variant => i <= j].name

\* the variants of the enum
Variants(locs) == {locs[i].ident : i \in DOMAIN locs}

\* the strings a caller splits into parts: a part may be the wildcard "*"
PartStrings == UNION {[1..n -> Chars \cup {"*"}] : n \in 0..MaxLen}

\* the enum is generated from a list of locales whose variants are distinct;
\* a behaviour then holds one call of one of its functions
EnumInit ==
    /\ enum_locales \in UNION {[1..n -> ValidKeys] : n \in 1..MaxLocales}
    /\ \A i, j \in DOMAIN enum_locales :
          enum_locales[i].ident = enum_locales[j].ident => i = j
    /\ called = None

CallAsStr(variant) ==
    /\ called = None
    /\ variant \in Variants(enum_locales)
    /\ called' = Some([fn |-> "as_str", arg |-> variant,
                       result |-> AsStr(enum_locales, variant)])
    /\ UNCHANGED <<enum_locales, keyVars, buildVars, cellVars, ctxVars>>

CallFromStr(s) ==
    /\ called = None
    /\ called' = Some([fn |-> "from_str", arg |-> s, result |-> FromStr(enum_locales, s)])
    /\ UNCHANGED <<enum_locales, keyVars, buildVars, cellVars, ctxVars>>

CallFromParts(s) ==
    /\ called = None
    /\ called' = Some([fn |-> "from_parts", arg |-> s, result |-> FromParts(enum_locales, s)])
    /\ UNCHANGED <<enum_locales, keyVars, buildVars, cellVars, ctxVars>>

EnumNext ==
    \/ \E variant \in Variants(enum_locales) : CallAsStr(variant)
    \/ \E s \in Strings : CallFromStr(s)
    \/ \E s \in PartStrings : CallFromParts(Split(s))

----------------------------------------------------------------------------
(* One translation unit with dynamic loading (fetch_translations.rs).  Its   *)
(* strings are in an async_once_cell::OnceCell: get_or_init returns the      *)
(* value of an initialised cell, else runs the caller's initialiser unless   *)
(* another call's is running, in which case the caller waits; an             *)
(* initialiser that panics leaves the cell empty for the next caller.        *)

\* the calls of request_strings and of init_translations
Requests == {"r1", "r2"}
Inits == {"i1", "i2"}
Calls == Requests \cup Inits

\* the values each init_translations call is given
ValuesOf == [i1 |-> "page", i2 |-> "stale"]

\* the strings Locale::request_translations may answer with
Fetched == {"served", "served_late"}

PollUnlocked(c, h) == IF c # None THEN "ready" ELSE "init"

\* OnceCell::get_or_init, polled: the cell's value, the caller's own
\* initialiser, or a wait for the running one
Poll(c, h) ==
    IF c # None THEN "ready" ELSE IF h = None THEN "init" ELSE "wait"

\* the call p completes, with what it returns
Done(p, r) == task' = [task EXCEPT ![p] = [pc |-> "done", result |-> r]]

\* request_strings polled for the first time, or again after a wait
PollRequest(p) ==
    /\ p \in Requests
    /\ task[p].pc \in {"idle", "waiting"}
    /\ LET o == Poll(cell, holder) IN
          /\ task[p].pc = "waiting" => o # "wait"
          /\ CASE o = "ready" -> Done(p, cell) /\ UNCHANGED holder
               [] o = "init"  -> /\ holder' = Some(p)
                                 /\ task' = [task EXCEPT ![p].pc = "fetching"]
               [] o = "wait"  -> /\ task' = [task EXCEPT ![p].pc = "waiting"]
                                 /\ UNCHANGED holder
    /\ UNCHANGED <<cell, stored, keyVars, buildVars, enumVars, ctxVars>>

\* the initialiser of request_strings: request_translations answers, the
\* strings are leaked and stored, and the call returns *inner
FetchDone(p, val) ==
    /\ task[p].pc = "fetching"
    /\ cell' = Some(val)
    /\ stored' = Append(stored, val)
    /\ holder' = IF holder = Some(p) THEN None ELSE holder
    /\ Done(p, cell')
    /\ UNCHANGED <<keyVars, buildVars, enumVars, ctxVars>>

\* request_translations fails and unwrap() panics inside the initialiser
FetchFails(p) ==
    /\ task[p].pc = "fetching"
    /\ holder' = IF holder = Some(p) THEN None ELSE holder
    /\ task' = [task EXCEPT ![p].pc = "panicked"]
    /\ UNCHANGED <<cell, stored, keyVars, buildVars, enumVars, ctxVars>>

\* init_translations(values): block_on(get_or_init(leak(values))), whose
\* initialiser is ready at its first poll
InitTranslations(p) ==
    /\ p \in Inits
    /\ task[p].pc \in {"idle", "blocked"}
    /\ LET o == Poll(cell, holder) IN
          /\ task[p].pc = "blocked" => o # "wait"
          /\ CASE o = "ready" -> Done(p, None) /\ UNCHANGED <<cell, stored>>
               [] o = "init"  -> /\ cell' = Some(ValuesOf[p])
                                 /\ stored' = Append(stored, ValuesOf[p])
                                 /\ Done(p, None)
               [] o = "wait"  -> /\ task' = [task EXCEPT ![p].pc = "blocked"]
                                 /\ UNCHANGED <<cell, stored>>
    /\ UNCHANGED <<holder, keyVars, buildVars, enumVars, ctxVars>>

CellNext ==
    \/ \E p \in Requests : PollRequest(p)
    \/ \E p \in Requests, val \in Fetched : FetchDone(p, val)
    \/ \E p \in Requests : FetchFails(p)
    \/ \E p \in Inits : InitTranslations(p)

----------------------------------------------------------------------------
(* The handoff of the translations from the server to the client             *)
(* (RegisterCtx, init_translations).  The text to_array writes is a sequence *)
(* of characters; a run of letters the code writes as a whole (a field name, *)
(* a locale name, an id) is one element of it.                               *)

\* the translation units: T::LOCALE and T::ID (to_str gives None for no id)
UnitOf == [u1 |-> [locale |-> "en", id |-> Some("ns")],
           u2 |-> [locale |-> "fr", id |-> None]]

\* the characters of a translated string: a letter, a double quote, a backslash
ValueChars == {"a", "\"", "\\"}

Values == UNION {[1..n -> ValueChars] : n \in 0..MaxValueLen}

\* how many strings each unit may hold
UnitSizes == [u1 |-> 1..MaxStrings, u2 |-> {1}]

\* the values of one entry: each pushed between two double quotes, as it is
RECURSIVE ValuesText(_, _)
ValuesText(vals, i) ==
    IF i > Len(vals) THEN <<>>
    ELSE (IF i # 1 THEN <<",">> ELSE <<>>) \o <<"\"">> \o vals[i] \o <<"\"">>
         \o ValuesText(vals, i + 1)

\* one turn of the loop of to_array over the map
EntryText(u, vals) ==
    <<"{", "\"", "locale", "\"", ":", "\"", UnitOf[u].locale>>
    \o (IF UnitOf[u].id # None
          THEN <<"\"", ",", "\"", "id", "\"", ":", "\"", UnitOf[u].id[1],
                 "\"", ",", "\"", "values", "\"", ":", "[">>
          ELSE <<"\"", ",", "\"", "id", "\"", ":", "null", ",", "\"", "values", "\"", ":", "[">>)
    \o ValuesText(vals, 1) \o <<"]", "}">>

RECURSIVE EntriesText(_, _, _)
EntriesText(order, map, i) ==
    IF i > Len(order) THEN <<>>
    ELSE (IF i # 1 THEN <<",">> ELSE <<>>) \o EntryText(order[i], map[order[i]])
         \o EntriesText(order, map, i + 1)

\* RegisterCtx::to_array, the map iterated in the order given
ToArrayText(order, map) ==
    <<"window.__LEPTOS_I18N_TRANSLATIONS = ", "[">> \o EntriesText(order, map, 1)
    \o <<"]", ";">>

\* the orders a HashMap of these keys may be iterated in
Orders(keyset) ==
    {o \in [1..Cardinality(keyset) -> keyset] : \A i, j \in DOMAIN o : o[i] = o[j] => i = j}

\* reading the script back: a result of one step of the reader
Fail == [ok |-> FALSE, val |-> <<>>, next |-> 0]
Read(val, next) == [ok |-> TRUE, val |-> val, next |-> next]

\* the text holds the elements e from position i on
Expect(t, i, e) == i + Len(e) - 1 <= Len(t) /\ SubSeq(t, i, i + Len(e) - 1) = e

\* a JavaScript string literal from after its opening quote: it ends at the
\* first double quote no backslash precedes, and a backslash escapes the
\* character after it
RECURSIVE ScanString(_, _, _)
ScanString(t, j, acc) ==
    IF j > Len(t) THEN Fail
    ELSE IF t[j] = "\"" THEN Read(acc, j + 1)
    ELSE IF t[j] = "\\"
      THEN IF j + 1 > Len(t) THEN Fail ELSE ScanString(t, j + 2, Append(acc, t[j + 1]))
    ELSE ScanString(t, j + 1, Append(acc, t[j]))

\* values: Vec<String>, from after the opening bracket
RECURSIVE ReadValues(_, _, _)
ReadValues(t, i, acc) ==
    IF i > Len(t) THEN Fail
    ELSE IF t[i] = "]" /\ acc = <<>> THEN Read(acc, i + 1)
    ELSE IF t[i] # "\"" THEN Fail
    ELSE LET r == ScanString(t, i + 1, <<>>) IN
         IF ~r.ok \/ r.next > Len(t) THEN Fail
         ELSE IF t[r.next] = "," THEN ReadValues(t, r.next + 1, Append(acc, r.val))
         ELSE IF t[r.next] = "]" THEN Read(Append(acc, r.val), r.next + 1)
         ELSE Fail

\* id: the string of an id, or null
ReadId(t, i) ==
    IF Expect(t, i, <<"null">>) THEN Read(None, i + 1)
    ELSE IF Expect(t, i, <<"\"">>)
      THEN LET r == ScanString(t, i + 1, <<>>) IN
           IF r.ok /\ \E u \in DOMAIN UnitOf : UnitOf[u].id = r.val
             THEN Read(r.val, r.next) ELSE Fail
    ELSE Fail

\* struct Trans { locale, id, values }, from its opening brace
ReadTrans(t, i) ==
    IF ~Expect(t, i, <<"{", "\"", "locale", "\"", ":", "\"">>) THEN Fail
    ELSE LET l == ScanString(t, i + 6, <<>>) IN
    IF ~l.ok \/ ~(\E u \in DOMAIN UnitOf : <<UnitOf[u].locale>> = l.val) THEN Fail
    ELSE IF ~Expect(t, l.next, <<",", "\"", "id", "\"", ":">>) THEN Fail
    ELSE LET d == ReadId(t, l.next + 5) IN
    IF ~d.ok THEN Fail
    ELSE IF ~Expect(t, d.next, <<",", "\"", "values", "\"", ":", "[">>) THEN Fail
    ELSE LET vs == ReadValues(t, d.next + 6, <<>>) IN
    IF ~vs.ok \/ ~Expect(t, vs.next, <<"}">>) THEN Fail
    ELSE Read([locale |-> l.val[1], id |-> d.val, values |-> vs.val], vs.next + 1)

\* Vec<Trans>, from after the opening bracket
RECURSIVE ReadArray(_, _, _)
ReadArray(t, i, acc) ==
    IF i > Len(t) THEN Fail
    ELSE IF t[i] = "]" /\ acc = <<>> THEN Read(acc, i + 1)
    ELSE LET r == ReadTrans(t, i) IN
         IF ~r.ok \/ r.next > Len(t) THEN Fail
         ELSE IF t[r.next] = "," THEN ReadArray(t, r.next + 1, Append(acc, r.val))
         ELSE IF t[r.next] = "]" THEN Read(Append(acc, r.val), r.next + 1)
         ELSE Fail

\* the script is run and window.__LEPTOS_I18N_TRANSLATIONS deserialized: the
\* entries, or the throw of a script that does not parse
ReadTranslations(t) ==
    IF ~Expect(t, 1, <<"window.__LEPTOS_I18N_TRANSLATIONS = ", "[">>) THEN Err("throw")
    ELSE LET r == ReadArray(t, 3, <<>>) IN
         IF r.ok /\ Expect(t, r.next, <<";">>) /\ r.next = Len(t)
           THEN Ok(r.val) ELSE Err("throw")

\* a server about to render: each unit has its strings, the context is empty
CtxInit ==
    /\ units \in [DOMAIN UnitOf -> UNION {[1..n -> Values] : n \in 1..MaxStrings}]
    /\ \A u \in DOMAIN UnitOf : Len(units[u]) \in UnitSizes[u]
    /\ register_calls = 0
    /\ ctx_map = <<>>
    /\ array_text = None
    /\ translations = None

\* RegisterCtx::register::<T>()
Register(u) ==
    /\ array_text = None
    /\ register_calls < MaxRegister
    /\ register_calls' = register_calls + 1
    /\ ctx_map' = [x \in DOMAIN ctx_map \cup {u} |-> IF x = u THEN units[u] ELSE ctx_map[x]]
    /\ UNCHANGED <<units, array_text, translations, keyVars, buildVars, enumVars, cellVars>>

\* RegisterCtx::to_array
ToArray(order) ==
    /\ array_text = None
    /\ order \in Orders(DOMAIN ctx_map)
    /\ array_text' = Some(ToArrayText(order, ctx_map))
    /\ UNCHANGED <<units, register_calls, ctx_map, translations,
                   keyVars, buildVars, enumVars, cellVars>>

\* init_translations: the client reads the array the script has set
InitTranslationsRead ==
    /\ array_text # None
    /\ translations = None
    /\ translations' = Some(ReadTranslations(array_text[1]))
    /\ UNCHANGED <<units, register_calls, ctx_map, array_text,
                   keyVars, buildVars, enumVars, cellVars>>

CtxNext ==
    \/ \E u \in DOMAIN UnitOf : Register(u)
    \/ \E order \in Orders(DOMAIN UnitOf) \cup Orders({"u1"}) \cup Orders({"u2"}) \cup Orders({}) :
          ToArray(order)
    \/ InitTranslationsRead

----------------------------------------------------------------------------
(* load_locales: the passes of one build *)

\* the pass that follows pass p in load_locales and load_locales_inner
PassAfterMergeFirst(p) ==
    CASE p = "env"      -> "config"
      [] p = "config"   -> "parse"
      [] p = "parse"    -> "check"
      [] p = "check"    -> "resolve"
      [] p = "resolve"  -> "generate"
      [] p = "generate" -> "warnings"
      [] p = "warnings" -> "return"
      [] p = "return"   -> "done"

PassAfter(p) ==
    CASE p = "env"      -> "config"
      [] p = "config"   -> "parse"
      [] p = "parse"    -> "resolve"
      [] p = "resolve"  -> "check"
      [] p = "check"    -> "generate"
      [] p = "generate" -> "warnings"
      [] p = "warnings" -> "return"
      [] p = "return"   -> "done"

QuestionMarkGoesOn(r, p) == PassAfter(p)

\* the "?" after a pass: its error leaves load_locales at once
QuestionMark(r, p) == IF r.ok THEN PassAfter(p) ELSE "failed"

\* what a pass that returned r leaves of the position, the passes run and
\* the result of load_locales
After(r, p) ==
    /\ pc' = QuestionMark(r, p)
    /\ ran' = IF r.ok THEN Append(ran, p) ELSE ran
    /\ output' = IF r.ok THEN output ELSE Some(Err(r.error))

\* std::env::var("CARGO_MANIFEST_DIR")
ReadManifestDir ==
    /\ pc = "env"
    /\ \E r \in {Ok("dir"), Err([error |-> "CargoDirEnvNotPresent"])} : After(r, "env")
    /\ UNCHANGED <<manifest, files, cfg_file, locales, builder_keys, code, warnings,
                   emitted, visited, runs, first_run, keyVars, runtimeVars>>

\* ConfigFile::new: the manifest, or the loader's error
ConfigFileNew ==
    /\ pc = "config"
    /\ \E r \in {Ok(manifest), Err([error |-> "ConfigFile"])} :
          /\ After(r, "config")
          /\ cfg_file' = IF r.ok THEN Some(r.value) ELSE cfg_file
    /\ UNCHANGED <<manifest, files, locales, builder_keys, code, warnings,
                   emitted, visited, runs, first_run, keyVars, runtimeVars>>

\* LocalesOrNamespaces::new: the parsed trees, or the parser's error
LocalesNew ==
    /\ pc = "parse"
    /\ \E r \in {Ok(files), Err([error |-> "Parse"])} :
          /\ After(r, "parse")
          /\ locales' = IF r.ok THEN Some(r.value) ELSE locales
    /\ UNCHANGED <<manifest, files, cfg_file, builder_keys, code, warnings,
                   emitted, visited, runs, first_run, keyVars, runtimeVars>>

\* the foreign keys of the trees, resolved or not
ForeignKeys(ts) ==
    {lk \in UNION {{<<l, k>> : k \in DOMAIN ts[l]} : l \in DOMAIN ts} :
        ts[lk[1]][lk[2]].t = "ForeignKey"}

\* ParsedValue::resolve_foreign_keys, its walk reaching the foreign key at
\* <<l, k>>: the key is resolved in place, or the error leaves load_locales
ResolveNode(l, k) ==
    /\ pc = "resolve"
    /\ <<l, k>> \in ForeignKeys(locales[1]) \ visited
    /\ LET r == ResolveForeignKey(locales[1], l, k, {}) IN
          /\ locales' = IF r.ok THEN Some(r.value) ELSE locales
          /\ visited' = visited \cup {<<l, k>>}
          /\ IF r.ok THEN UNCHANGED <<pc, ran, output>>
             ELSE /\ pc' = QuestionMark(r, "resolve")
                  /\ UNCHANGED ran
                  /\ output' = Some(Err(r.error))
    /\ UNCHANGED <<manifest, files, cfg_file, builder_keys, code, warnings,
                   emitted, runs, first_run, keyVars, runtimeVars>>

\* ParsedValue::resolve_foreign_keys, the end of its walk: Ok(())
ResolveDone ==
    /\ pc = "resolve"
    /\ ForeignKeys(locales[1]) \subseteq visited
    /\ After(Ok(locales[1]), "resolve")
    /\ runs' = runs + 1
    /\ first_run' = IF runs = 0 THEN locales ELSE first_run
    /\ visited' = {}
    /\ UNCHANGED <<manifest, files, cfg_file, locales, builder_keys, code, warnings,
                   emitted, keyVars, runtimeVars>>

\* Locale::check_locales: the merged keys, the trees reduced and the
\* warnings emitted into the accumulator; or the first error met, after the
\* warnings emitted before it
CheckLocalesPass ==
    /\ pc = "check"
    /\ LET r == CheckLocales(cfg_file[1].locales, locales[1]) IN
          IF r.ok
            THEN /\ After(Ok(r.keys), "check")
                 /\ builder_keys' = Some([locales |-> LocalesOf(cfg_file[1].locales, r.trees),
                                          keys |-> r.keys])
                 /\ locales' = Some(r.trees)
                 /\ warnings' = warnings (+) SetToBag(r.warnings)
            ELSE /\ \E e \in r.errors : After(Err(e), "check")
                 /\ \E part \in SUBSET r.partial :
                       warnings' = warnings (+) SetToBag(r.warnings \cup part)
                 /\ UNCHANGED <<builder_keys, locales>>
    /\ UNCHANGED <<manifest, files, cfg_file, code, emitted, visited, runs, first_run,
                   keyVars, runtimeVars>>

\* create_locale_type and create_locales_enum
GenerateCode ==
    /\ pc = "generate"
    /\ code' = Some(CreateLocaleType(builder_keys[1], cfg_file[1]))
    /\ After(Ok(code'), "generate")
    /\ UNCHANGED <<manifest, files, cfg_file, locales, builder_keys, warnings,
                   emitted, visited, runs, first_run, keyVars, runtimeVars>>

\* generate_warnings: the accumulated warnings become part of the output
GenerateWarnings ==
    /\ pc = "warnings"
    /\ emitted' = Some(warnings)
    /\ After(Ok(warnings), "warnings")
    /\ UNCHANGED <<manifest, files, cfg_file, locales, builder_keys, code, warnings,
                   visited, runs, first_run, keyVars, runtimeVars>>

\* Ok(quote! { ... #locale_type ... #warnings })
Return ==
    /\ pc = "return"
    /\ pc' = PassAfter("return")
    /\ ran' = Append(ran, "return")
    /\ output' = Some(Ok([locale_type |-> code[1], warnings |-> emitted[1]]))
    /\ UNCHANGED <<manifest, files, cfg_file, locales, builder_keys, code, warnings,
                   emitted, visited, runs, first_run, keyVars, runtimeVars>>

----------------------------------------------------------------------------
(* The builds the model starts from *)

LocaleNames == {"en", "fr", "de"}

\* the value a locale file holds at a key, by the shape authored there; a
\* string's text names the locale and the key it was authored for
Authored(l, path, shape) ==
    CASE shape = "absent"  -> None
      [] shape = "string"  -> Some(String(<<l, path>>))
      [] shape = "var_x"   -> Some(Variable("x"))
      [] shape = "var_y"   -> Some(Variable("y"))
      [] shape = "comp_x"  -> Some(Component("x"))
      [] shape = "sub_k"   -> Some(Subkeys(Put(EmptyTree, "k", String(<<l, Append(path, "k")>>))))
      [] shape = "sub_j"   -> Some(Subkeys(Put(EmptyTree, "j", String(<<l, Append(path, "j")>>))))
      [] shape = "fk_k1"   -> Some(ForeignKey("k1"))
      [] shape = "fk_k2"   -> Some(ForeignKey("k2"))
      [] shape = "fk_k3"   -> Some(ForeignKey("k3"))
      [] shape = "fk_k4"   -> Some(ForeignKey("k4"))

\* the shapes a build's files hold at the keys k1 and k2
BuildShapes ==
    [k1 |-> {"absent", "string", "var_x", "var_y", "comp_x", "sub_k", "sub_j",
             "fk_k2", "fk_k3"},
     k2 |-> {"absent", "string", "fk_k1"}]

\* the shapes the resolver's inputs hold at the keys k1, k2 and k3; no tree
\* holds k4, so a reference to k4 is a reference to a path that does not exist
ResolveShapes ==
    [en |-> [k1 |-> {"string", "fk_k1", "fk_k2", "fk_k3", "fk_k4"},
             k2 |-> {"string", "fk_k1", "fk_k2", "fk_k3", "fk_k4"},
             k3 |-> {"string", "fk_k1", "fk_k2", "fk_k3", "fk_k4"}],
     fr |-> [k1 |-> {"string", "fk_k2", "fk_k3", "fk_k4"},
             k2 |-> {"string", "fk_k1"},
             k3 |-> {"string"}]]

\* the files in which locale l holds at key k the shape c[l][k]
FilesOf(c) ==
    [l \in DOMAIN c |-> TreeOf([k \in DOMAIN c[l] |-> Authored(l, <<k>>, c[l][k])])]

BuildFresh ==
    /\ cfg_file = None
    /\ locales = None
    /\ builder_keys = None
    /\ code = None
    /\ warnings = EmptyBag
    /\ emitted = None
    /\ output = None
    /\ visited = {}
    /\ runs = 0
    /\ first_run = None

\* a build about to start
BuildInit ==
    /\ manifest \in {[default |-> "en", locales |-> o] :
                        o \in {<<"en", "fr", "de">>, <<"en", "de", "fr">>}}
    /\ \E c \in [LocaleNames -> [k1 : BuildShapes.k1, k2 : BuildShapes.k2]] :
          files = FilesOf(c)
    /\ pc = "env"
    /\ ran = <<>>
    /\ BuildFresh

\* a build whose files are parsed, about to resolve the foreign keys
ResolveInit ==
    /\ manifest = [default |-> "en", locales |-> <<"en", "fr">>]
    /\ \E c \in [en : [k1 : ResolveShapes.en.k1, k2 : ResolveShapes.en.k2,
                       k3 : ResolveShapes.en.k3],
                 fr : [k1 : ResolveShapes.fr.k1, k2 : ResolveShapes.fr.k2,
                       k3 : ResolveShapes.fr.k3]] :
          files = FilesOf(c)
    /\ pc = "resolve"
    /\ ran = <<"env", "config", "parse">>
    /\ cfg_file = Some(manifest)
    /\ locales = Some(files)
    /\ builder_keys = None
    /\ code = None
    /\ warnings = EmptyBag
    /\ emitted = None
    /\ output = None
    /\ visited = {}
    /\ runs = 0
    /\ first_run = None

\* no build
BuildIdle ==
    /\ manifest = [default |-> "en", locales |-> <<"en">>]
    /\ files = [l \in {"en"} |-> EmptyTree]
    /\ pc = "done"
    /\ ran = <<>>
    /\ BuildFresh

\* the resolver is run once more over the trees it has resolved
RunAgain ==
    /\ pc = "check"
    /\ runs < MaxRuns
    /\ pc' = "resolve"
    /\ UNCHANGED <<manifest, files, ran, cfg_file, locales, builder_keys, code, warnings,
                   emitted, output, visited, runs, first_run, keyVars, runtimeVars>>

----------------------------------------------------------------------------
(* The specifications *)

\* no enum has been generated
EnumIdle ==
    /\ enum_locales = <<>>
    /\ called = None

\* no call of the translation unit
CellIdle ==
    /\ cell = None
    /\ holder = None
    /\ task = [p \in Calls |-> [pc |-> "idle", result |-> None]]
    /\ stored = <<>>

\* no RegisterCtx
CtxIdle ==
    /\ units = <<>>
    /\ register_calls = 0
    /\ ctx_map = <<>>
    /\ array_text = None
    /\ translations = None

RuntimeIdle == EnumIdle /\ CellIdle /\ CtxIdle

InitKey == KeyInit /\ BuildIdle /\ RuntimeIdle

\* the key deserializer
SpecKey == InitKey /\ [][KeyNext]_vars

Init == KeyInit /\ BuildInit /\ RuntimeIdle

Next ==
    \/ ReadManifestDir
    \/ ConfigFileNew
    \/ LocalesNew
    \/ \E l \in LocaleNames, k \in {"k1", "k2"} : ResolveNode(l, k)
    \/ ResolveDone
    \/ CheckLocalesPass
    \/ GenerateCode
    \/ GenerateWarnings
    \/ Return

\* one build
Spec == Init /\ [][Next]_vars

ResolveNext ==
    \/ \E l \in {"en", "fr"}, k \in {"k1", "k2", "k3"} : ResolveNode(l, k)
    \/ ResolveDone
    \/ RunAgain

InitResolve == KeyInit /\ ResolveInit /\ RuntimeIdle

\* the foreign-key resolver, run over parsed trees and then run again
SpecResolve == InitResolve /\ [][ResolveNext]_vars

\* the same, the running program never halting in the middle of a pass
SpecResolveFair == SpecResolve /\ WF_vars(ResolveNext)

InitCell == KeyInit /\ BuildIdle /\ EnumIdle /\ CellIdle /\ CtxIdle

\* concurrent calls of one translation unit
SpecCell == InitCell /\ [][CellNext]_vars

InitCtx == KeyInit /\ BuildIdle /\ EnumIdle /\ CellIdle /\ CtxInit

\* one render on the server and the hydration that reads it
SpecCtx == InitCtx /\ [][CtxNext]_vars

InitEnum == KeyInit /\ BuildIdle /\ EnumInit /\ CellIdle /\ CtxIdle

\* calls of the functions of a generated Locale enum
SpecEnum == InitEnum /\ [][EnumNext]_vars

----------------------------------------------------------------------------
(* Claims about Key *)

\* a syntactically valid bare identifier: a letter or "_", then letters,
\* digits and "_", and neither "_" alone nor a keyword
IsBareIdent(s) ==
    /\ s # <<>>
    /\ IsIdentStart(s[1])
    /\ \A i \in 1..Len(s) : IsIdentContinue(s[i])
    /\ s # <<"_">>
    /\ s \notin Keywords

Candidate(raw) == ReplaceHyphens(Trim(raw))

\* C1: Key::new(raw) returns a key exactly when the candidate (raw trimmed,
\* every "-" replaced by "_") is a valid bare identifier; the key's name is
\* the trimmed raw text and its identifier is the candidate.
C1_NewIffBareIdent ==
    v # None =>
        /\ (opt # None) <=> IsBareIdent(Candidate(v[1]))
        /\ opt # None => opt[1] = Key(Trim(v[1]), Candidate(v[1]))

KeyNames(ks) == {ks[i].name : i \in 1..Len(ks)}

\* C2: two Keys are equal, and interchangeable as members of a hashed
\* container, exactly when their names are equal; equal Keys have equal
\* hashes; Keys with different names stay distinct members even when their
\* identifiers coincide.
C2_EqAndHashByName ==
    top_locales # {} =>
        /\ \A i, j \in 1..Len(keys) :
              /\ SetContains(SetInsert({}, keys[i]), keys[j]) <=> keys[i].name = keys[j].name
              /\ KeyEq(keys[i], keys[j]) => KeyHash(keys[i]) = KeyHash(keys[j])
        /\ {k.name : k \in top_locales} = KeyNames(keys)
        /\ Cardinality(top_locales) = Cardinality(KeyNames(keys))

\* two keys with different names and one identifier are two members of the set
C2_Witness ==
    /\ Len(keys) = 2
    /\ keys[1].name # keys[2].name
    /\ keys[1].ident = keys[2].ident
    /\ Cardinality(top_locales) = 2

\* C3: try_new is Ok with the key of Key::new exactly when Key::new returns
\* one, and otherwise the InvalidKey error carrying the raw string as passed;
\* visit_str fails with that error, and visit_seq returns it at the first
\* invalid element, with no list.
C3_TryNewCarriesRaw ==
    /\ v # None =>
          /\ res[1].ok <=> opt # None
          /\ res[1].ok => res[1].value = opt[1]
          /\ ~res[1].ok =>
                /\ res[1].error = InvalidKey(v[1])
                /\ seq_result = Some(Err(InvalidKey(v[1])))
                /\ keys = <<>>
    /\ (seq_result # None /\ ~seq_result[1].ok) => (v # None /\ ~res[1].ok)
    /\ (seq_result # None /\ seq_result[1].ok) =>
          /\ seq_result[1].value = keys
          /\ Len(keys) = pos

\* the second element is invalid, and differs from its trimmed and from its
\* hyphen-replaced form: the call fails, carrying it as passed
C3_Witness ==
    /\ pos = 2
    /\ seq_result # None
    /\ ~seq_result[1].ok
    /\ seq_result[1].error.raw # Trim(v[1])
    /\ seq_result[1].error.raw # ReplaceHyphens(v[1])

----------------------------------------------------------------------------
(* Claims about load_locales *)

PassOrder == <<"env", "config", "parse", "resolve", "check", "generate", "warnings", "return">>

Failed == output # None /\ ~output[1].ok

\* the pass a failed build stopped in
FailedIn == PassOrder[Len(ran) + 1]

ErrorsOf(p) ==
    CASE p = "env"     -> {"CargoDirEnvNotPresent"}
      [] p = "config"  -> {"ConfigFile"}
      [] p = "parse"   -> {"Parse"}
      [] p = "resolve" -> {"ForeignKeyCycle", "UndefinedForeignKey"}
      [] p = "check"   -> {"LocaleKeyTypeMismatch"}
      [] OTHER         -> {}

\* C4: a build fails at the first error: the error of the failing pass
\* (config loading, parsing, foreign-key resolution, locale check) is what
\* load_locales returns, no later pass runs, and neither generated code nor
\* warnings are produced; warnings are surfaced only by a build all of whose
\* passes succeeded.
C4_FirstErrorAborts ==
    /\ Failed <=> pc = "failed"
    /\ Failed =>
          /\ ran = SubSeq(PassOrder, 1, Len(ran))
          /\ output[1].error.error \in ErrorsOf(FailedIn)
          /\ code = None
          /\ emitted = None
          /\ FailedIn \in {"env", "config"} => locales = None
          /\ FailedIn \in {"env", "config", "parse", "resolve", "check"} => builder_keys = None
    /\ emitted # None =>
          /\ ~Failed
          /\ SubSeq(ran, 1, 6) = SubSeq(PassOrder, 1, 6)
    /\ (output # None /\ output[1].ok) =>
          /\ ran = PassOrder
          /\ output[1].value.warnings = warnings

\* the locale check failed after it had put warnings into the accumulator
C4_Witness ==
    /\ pc = "failed"
    /\ output[1].error.error = "LocaleKeyTypeMismatch"
    /\ warnings # EmptyBag
    /\ emitted = None
    /\ code = None

\* C5: the passes run in the order parse, resolve foreign keys, merge,
\* generate code and warnings: every tree is resolved before the merge reads
\* any, the merge is over before code generation starts, warnings are
\* collected after the merge, and no pass runs while another is not over.
C5_PassOrder ==
    /\ ran = SubSeq(PassOrder, 1, Len(ran))
    /\ pc \notin {"failed", "done"} => pc = PassOrder[Len(ran) + 1]
    /\ pc = "done" => ran = PassOrder
    /\ pc \in {"env", "config", "parse"} => (runs = 0 /\ visited = {})
    /\ pc \in {"env", "config", "parse", "resolve"} =>
          (builder_keys = None /\ warnings = EmptyBag)
    /\ pc \in {"check", "generate", "warnings", "return", "done"} =>
          (runs = 1 /\ visited = {} /\ Unresolved(locales[1]) = {})
    /\ pc \in {"env", "config", "parse", "resolve", "check"} => code = None
    /\ pc \in {"generate", "warnings", "return", "done"} => builder_keys # None
    /\ code # None => code[1] = CreateLocaleType(builder_keys[1], cfg_file[1])
    /\ emitted # None <=> pc \in {"return", "done"}
    /\ emitted # None => (code # None /\ emitted[1] = warnings)

\* a build ran to its end over trees that held a foreign key, with warnings
C5_Witness ==
    /\ pc = "done"
    /\ ForeignKeys(files) # {}
    /\ emitted[1] # EmptyBag

Default == manifest.default
Others == Range(manifest.locales) \ {Default}

\* the arms of a generated type whose pattern is locale l alone
OwnArms(type, l) == {i \in DOMAIN type.arms : type.arms[i].pattern = {l}}

\* the number of times warning w is in the accumulator
Count(w) == IF w \in DOMAIN warnings THEN warnings[w] ELSE 0

\* in the scope of the generated type, whose keys are ks, locale l (tree
\* mine) lacks keys of the default locale (tree dflt): one warning for each,
\* and l's arm fills a plain-string key with the default locale's string
MissingFallsBack(type, ks, l, dflt, mine, path) ==
    \A k \in DOMAIN dflt \ DOMAIN mine :
        /\ Count(MissingKey(l, Append(path, k))) = 1
        /\ ks[k] = Value(None) =>
              /\ OwnArms(type, l) # {}
              /\ \A i \in OwnArms(type, l) :
                    /\ k \in DOMAIN type.arms[i].string_fields
                    /\ type.arms[i].string_fields[k] = dflt[k].text

\* the keys at which both trees hold subkeys
SharedSubkeys(dflt, mine) ==
    {k \in DOMAIN dflt \cap DOMAIN mine : dflt[k].t = "Subkeys" /\ mine[k].t = "Subkeys"}

NoField(type, k) ==
    /\ k \notin type.fields.string \cup type.fields.builder \cup type.fields.subkeys
    /\ k \notin DOMAIN type.subkeys
    /\ \A i \in DOMAIN type.arms :
          /\ k \notin DOMAIN type.arms[i].string_fields
          /\ k \notin type.arms[i].builder_fields \cup type.arms[i].subkeys_fields

SurplusDiscarded(type, ks, l, dflt, mine, path) ==
    \A k \in DOMAIN mine \ DOMAIN dflt :
        /\ Count(SurplusKey(l, Append(path, k))) = 1
        /\ k \notin DOMAIN ks
        /\ NoField(type, k)

\* C7: a key of a non-default locale that the default locale lacks gives
\* exactly one surplus-key warning and is not in the final schema: no field,
\* builder or subkeys type is generated for it, in any scope.
C7_SurplusKeyDiscarded ==
    code # None =>
        \A l \in Others :
            LET dflt == locales[1][Default]
                mine == locales[1][l]
            IN  /\ SurplusDiscarded(code[1], builder_keys[1].keys, l, dflt, mine, <<>>)
                /\ \A k \in SharedSubkeys(dflt, mine) :
                      SurplusDiscarded(code[1].subkeys[k], builder_keys[1].keys[k].keys,
                                       l, dflt[k].keys, mine[k].keys, <<k>>)

\* the build is over; fr's tree holds k2, which en lacks, and the subkey j
\* under k1, which en's k1 lacks
C7_Witness ==
    /\ pc = "done"
    /\ "k2" \in DOMAIN locales[1]["fr"] \ DOMAIN locales[1]["en"]
    /\ "k1" \in SharedSubkeys(locales[1]["en"], locales[1]["fr"])
    /\ "j" \in DOMAIN locales[1]["fr"]["k1"].keys \ DOMAIN locales[1]["en"]["k1"].keys
    /\ Count(SurplusKey("fr", <<"k2">>)) = 1
    /\ Count(SurplusKey("fr", <<"k1", "j">>)) = 1

----------------------------------------------------------------------------
(* Claims about the foreign-key resolver *)

\* where the chain of references from key k of a tree ends: at a value, at a
\* path that does not exist, or nowhere (it runs into a cycle)
RECURSIVE Fate(_, _, _)
Fate(tree, k, seen) ==
    IF k \notin DOMAIN tree THEN "undefined"
    ELSE IF tree[k].t # "ForeignKey" THEN "value"
    ELSE IF k \in seen THEN "cycle"
    ELSE Fate(tree, tree[k].path, seen \cup {k})

Fates == {Fate(files[lk[1]], lk[2], {}) : lk \in ForeignKeys(files)}

\* the value at the end of the chain of references from key k
RECURSIVE Terminal(_, _)
Terminal(tree, k) ==
    IF tree[k].t = "ForeignKey" THEN Terminal(tree, tree[k].path) ELSE tree[k]

\* the trees with every reference resolved to the value its chain ends at
Resolved(ts) ==
    [l \in DOMAIN ts |-> [k \in DOMAIN ts[l] |->
        IF ts[l][k].t = "ForeignKey"
          THEN [ts[l][k] EXCEPT !.resolved = Some(Terminal(ts[l], k))]
          ELSE ts[l][k]]]

\* C8: foreign-key resolution is idempotent: on trees on which resolution
\* succeeded, a second run of the resolver leaves every tree as the first
\* run left it (and does not fail); and the resolved trees are the same in
\* whatever order the keys are resolved.
C8_ResolveIdempotent ==
    /\ runs >= 1 =>
          /\ first_run = Some(Resolved(files))
          /\ locales = first_run
          /\ ~Failed
    /\ runs = 0 => first_run = None

\* the second run is over, on trees with a chain of two references
C8_Witness ==
    /\ runs = 2
    /\ files["en"]["k1"] = ForeignKey("k2")
    /\ files["en"]["k2"] = ForeignKey("k3")
    /\ locales[1]["en"]["k1"].resolved = Some(String(<<"en", <<"k3">>>>))
    /\ locales = first_run

ResolverFailed == pc = "failed"
ResolverOver == ResolverFailed \/ runs >= 1

\* the resolver fails exactly when a reference is faulty, and the error it
\* returns is the one of the reference it names
C9_Kinds ==
    /\ ResolverOver => (ResolverFailed <=> Fates \cap {"cycle", "undefined"} # {})
    /\ ResolverFailed =>
          LET e == output[1].error
              f == Fate(files[e.locale], e.key, {})
          IN  /\ e.error \in {"ForeignKeyCycle", "UndefinedForeignKey"}
              /\ e.error = "ForeignKeyCycle" <=> f = "cycle"
              /\ e.error = "UndefinedForeignKey" <=> f = "undefined"

\* C9: foreign-key resolution always ends, in every walk order; a reference
\* whose chain runs into a cycle (of length 2 or any other length, itself
\* included) fails with ForeignKeyCycle, one whose chain ends at a path that
\* does not exist fails with the distinct UndefinedForeignKey, and without
\* either the resolver succeeds.
C9_ResolveTerminates == []C9_Kinds /\ <>ResolverOver

\* the resolver failed on a cycle of length 2, on trees that hold no path
\* that does not exist
C9_Witness ==
    /\ ResolverFailed
    /\ output[1].error.error = "ForeignKeyCycle"
    /\ files["en"]["k1"] = ForeignKey("k2")
    /\ files["en"]["k2"] = ForeignKey("k1")
    /\ "undefined" \notin Fates

----------------------------------------------------------------------------
(* Claims about the merge *)

\* the schema of merged keys: each key's classification and interpolation keys
RECURSIVE Schema(_)
Schema(ks) ==
    [k \in DOMAIN ks |->
        IF ks[k].t = "Subkeys" THEN [t |-> "Subkeys", keys |-> Schema(ks[k].keys)]
        ELSE ks[k]]

\* the locale list with the non-default locales in the opposite order
Swapped(order) == [i \in DOMAIN order |-> IF i = 1 THEN order[1] ELSE order[Len(order) + 2 - i]]

\* C10: the merge does not depend on the order of the non-default locales:
\* with the locale list in the opposite order, the check of the same trees
\* fails exactly when this build's check failed, and otherwise gives the same
\* schema and the same set of warnings.
C10_MergeOrderIndependent ==
    LET other == CheckLocales(Swapped(manifest.locales), first_run[1]) IN
    /\ builder_keys # None =>
          /\ other.ok
          /\ Schema(other.keys) = Schema(builder_keys[1].keys)
          /\ other.warnings = BagToSet(warnings)
    /\ (Failed /\ FailedIn = "check") => ~other.ok

\* the merged interpolation keys of k1 are the union of what fr and de use
C10_Witness ==
    /\ builder_keys # None
    /\ \A l \in LocaleNames : "k1" \in DOMAIN files[l]
    /\ files["en"]["k1"].t = "String"
    /\ files["fr"]["k1"] = Variable("x")
    /\ files["de"]["k1"] = Variable("y")
    /\ builder_keys[1].keys["k1"] =
          Value(Some({[key |-> "x", kind |-> "Variable"], [key |-> "y", kind |-> "Variable"]}))
    /\ warnings # EmptyBag

----------------------------------------------------------------------------
(* Claims about the generated types *)

\* the fields of a scope's type are decided by the merged values of its keys
FieldsByValue(type, ks) ==
    /\ type.fields.string  = {k \in DOMAIN ks : ks[k] = Value(None)}
    /\ type.fields.builder = {k \in DOMAIN ks : ks[k].t = "Value" /\ ks[k].sig # None}
    /\ type.fields.subkeys = {k \in DOMAIN ks : ks[k].t = "Subkeys"}
    /\ type.fields.string \cap type.fields.builder = {}
    /\ type.fields.string \cap type.fields.subkeys = {}
    /\ type.fields.builder \cap type.fields.subkeys = {}
    /\ type.fields.string \cup type.fields.builder \cup type.fields.subkeys = DOMAIN ks
    /\ DOMAIN type.subkeys = type.fields.subkeys

\* every arm of a scope's constructor initialises every field of the type, a
\* string field with the string of the arm's locale or else the default's
ArmsFillFields(type, locs) ==
    /\ DOMAIN type.arms = 1..Len(locs)
    /\ \A i \in DOMAIN type.arms :
          LET arm == type.arms[i] IN
          /\ DOMAIN arm.string_fields = type.fields.string
          /\ arm.builder_fields = type.fields.builder
          /\ arm.subkeys_fields = type.fields.subkeys
          /\ \A k \in type.fields.string :
                arm.string_fields[k] =
                    IF k \in DOMAIN locs[i].keys /\ locs[i].keys[k].t = "String"
                      THEN locs[i].keys[k].text
                      ELSE locs[1].keys[k].text

RECURSIVE ScopeByValue(_, _, _)
ScopeByValue(type, ks, locs) ==
    /\ FieldsByValue(type, ks)
    /\ ArmsFillFields(type, locs)
    /\ \A k \in DOMAIN type.subkeys :
          ScopeByValue(type.subkeys[k], ks[k].keys, ks[k].locales)

TreesAt(trees, k) ==
    [l \in {x \in DOMAIN trees : k \in DOMAIN trees[x] /\ trees[x][k].t = "Subkeys"} |->
        trees[l][k].keys]

\* the arms of a scope's constructor whose pattern matches locale l
ArmsMatching(type, l) == {i \in DOMAIN type.arms : l \in type.arms[i].pattern}

RECURSIVE ArmsPartition(_, _)
ArmsPartition(type, trees) ==
    LET configured == Range(manifest.locales) IN
    /\ Default \in DOMAIN trees
    /\ \A l \in configured : Cardinality(ArmsMatching(type, l)) = 1
    /\ \A i \in DOMAIN type.arms : type.arms[i].pattern \subseteq configured
    /\ type.arms[1].pattern = {Default} \cup (configured \ DOMAIN trees)
    /\ \A l \in DOMAIN trees \ {Default} :
          \E i \in DOMAIN type.arms : i # 1 /\ type.arms[i].pattern = {l}
    /\ \A k \in DOMAIN type.arms[1].string_fields :
          type.arms[1].string_fields[k] = trees[Default][k].text
    /\ \A k \in DOMAIN type.subkeys : ArmsPartition(type.subkeys[k], TreesAt(trees, k))

\* C12: in every scope the arms of the generated constructor new(locale)
\* partition the configured locales: the first arm matches the default
\* locale and exactly the configured locales with no tree in the scope, every
\* other locale of the scope has an arm of its own, each configured locale is
\* matched by exactly one arm, and the first arm holds the default locale's
\* values.
C12_ArmsPartitionLocales ==
    code # None => ArmsPartition(code[1], locales[1])

\* the build is over: en and fr hold subkeys at k1 and de does not hold k1, so
\* the first arm of the type of k1 matches en and de, and fr has its own arm
C12_Witness ==
    /\ pc = "done"
    /\ code # None
    /\ "k1" \in DOMAIN code[1].subkeys
    /\ "k1" \notin DOMAIN files["de"]
    /\ code[1].subkeys["k1"].arms[1].pattern = {"en", "de"}
    /\ Len(code[1].subkeys["k1"].arms) = 2
    /\ code[1].subkeys["k1"].arms[2].pattern = {"fr"}
    /\ code[1].subkeys["k1"].arms[1].string_fields = [k \in {"k"} |-> <<"en", <<"k1", "k">>>>]

----------------------------------------------------------------------------
(* Claims about the generated Locale enum *)

LocaleNamesOf(locs) == {locs[i].name : i \in DOMAIN locs}

\* C13: for every locale L of the generated enum, parsing its own name
\* returns it: from_str of as_str(L), also surrounded by whitespace, is
\* Some(L), and from_parts of as_str(L) split on '-' is Some(L), whatever the
\* order the locales are declared in; from_str is None for a string that
\* (trimmed) is not the name of a locale.
C13_ParseOwnName ==
    called # None =>
        LET c == called[1] IN
        /\ c.fn = "from_str" =>
              /\ \A L \in Variants(enum_locales) :
                    Trim(c.arg) = AsStr(enum_locales, L) => c.result = Some(L)
              /\ Trim(c.arg) \notin LocaleNamesOf(enum_locales) => c.result = None
        /\ c.fn = "from_parts" =>
              \A L \in Variants(enum_locales) :
                  c.arg = Split(AsStr(enum_locales, L)) => c.result = Some(L)

\* the locales are declared as a, a-1: the parts of the first are a prefix of
\* the parts of the second, and from_parts of the parts of a-1 gave a_1
C13_Witness ==
    /\ enum_locales = <<Key(<<"a">>, <<"a">>), Key(<<"a", "-", "1">>, <<"a", "_", "1">>)>>
    /\ called = Some([fn |-> "from_parts", arg |-> <<(<<"a">>), (<<"1">>)>>,
                      result |-> Some(<<"a", "_", "1">>)])

----------------------------------------------------------------------------
(* Claims about the translation unit's cell *)

\* at most one initialiser's result is stored, the cell holds it, and every
\* request_strings call that completed returned it
StoredOnce ==
    /\ Len(stored) <= 1
    /\ cell # None => stored = <<cell[1]>>
    /\ cell = None => stored = <<>>
    /\ \A p \in Requests :
          task[p].pc = "done" => (cell # None /\ task[p].result = cell)

\* C14: under any interleaving of request_strings and init_translations
\* calls the unit's cell is initialised at most once: at most one
\* initialiser's result is stored, every request_strings call completes with
\* that stored value, and once the cell holds a value no later call changes
\* it.
C14_InitialisedOnce ==
    /\ []StoredOnce
    /\ [][cell # None => cell' = cell]_vars

\* a request's initialiser stored what it fetched; both requests returned
\* it, and both init_translations calls, given other values, completed and
\* were ignored
C14_Witness ==
    /\ cell = Some("served")
    /\ \A p \in Requests : task[p] = [pc |-> "done", result |-> Some("served")]
    /\ \A p \in Inits : task[p].pc = "done" /\ ValuesOf[p] # cell[1]

----------------------------------------------------------------------------
(* Claims about the handoff of the translations *)

\* what the registered units are: one entry for each pair in the map
Registered ==
    {[locale |-> UnitOf[u].locale, id |-> UnitOf[u].id, values |-> ctx_map[u]] :
        u \in DOMAIN ctx_map}

\* C15: the handoff is lossless: what the client reads back of the text of
\* to_array is exactly one entry for each distinct registered (locale, id)
\* pair, a missing id read as null, each with the strings of the registered
\* unit in their order, whatever the strings hold.
C15_HandoffLossless ==
    translations # None =>
        /\ translations[1].ok
        /\ Len(translations[1].value) = Cardinality(DOMAIN ctx_map)
        /\ Range(translations[1].value) = Registered

====
